---- MODULE Spec2Model ----
(***************************************************************************)
(* Model of Bytes.py: the daily C++ tip mailer.                            *)
(*                                                                         *)
(* Strings are sequences of one-character strings, so that str.replace,    *)
(* str.split and str.strip are computed character by character.            *)
(*                                                                         *)
(* Three specifications:                                                   *)
(*   Spec          one run of the script (__main__), with the mail server  *)
(*                 free to fail at any step;                               *)
(*   SpecTip       pick_tip_today applied on consecutive calendar days;    *)
(*   SpecFallback  build_text_fallback applied to bounded input texts.     *)
(***************************************************************************)
EXTENDS Integers, Sequences, FiniteSets, TLC

VARIABLES
    \* ---- one run of the script (Spec) ----
    pc,               \* position of the run in the script
    env,              \* the three environment variables
    SENDER_EMAIL,     \* module globals, set at import
    EMAIL_PASSWORD,
    RECEIVER_EMAILS,
    CPP_TIPS,         \* the tip list
    clock,            \* day-count datetime.date.today() returns
    tip, html, text, subject,   \* locals of __main__
    session,          \* "none" | "open" | "closed": the smtplib.SMTP object
    opened, released, \* how many sessions were opened / released
    tls, auth,        \* starttls() / login() have succeeded
    rest,             \* recipients the for loop has not yet reached
    sends,            \* sendmail calls made, in order, failed ones included
    printed,          \* status lines printed
    calls,            \* the calls made on the mail server, in order
    error,            \* the exception that ended the run, or "none"
    \* ---- tip rotation over days (SpecTip) ----
    sel_tips, sel_day, sel_hist,
    \* ---- text fallback (SpecFallback) ----
    fb_frags, fb_in, fb_out, fb_pc

runVars == <<pc, env, SENDER_EMAIL, EMAIL_PASSWORD, RECEIVER_EMAILS, CPP_TIPS,
             clock, tip, html, text, subject, session, opened, released,
             tls, auth, rest, sends, printed, calls, error>>
selVars == <<sel_tips, sel_day, sel_hist>>
fbVars  == <<fb_frags, fb_in, fb_out, fb_pc>>
vars    == <<runVars, selVars, fbVars>>

-----------------------------------------------------------------------------
(* Bounds *)

\* longest input text of SpecFallback, in fragments
MaxFrags == 3
\* longest tip list of SpecTip
MaxTips == 3
\* latest day-count on which SpecTip starts, and the days it then runs
MaxStartDay == 3
MaxRunDays == 7
\* longest RECEIVER_EMAILS environment value of Spec, in characters
MaxEnvLen == 5
\* longest tip list of Spec
MaxRunTips == 2
\* latest day-count on which the run of Spec starts
MaxClock == 2

-----------------------------------------------------------------------------
(* Strings *)

RECURSIVE Concat(_)
\* the concatenation of a sequence of strings
Concat(ss) == IF ss = <<>> THEN <<>> ELSE Head(ss) \o Concat(Tail(ss))

\* s starts with the non-empty string p
StartsWith(s, p) == Len(s) >= Len(p) /\ SubSeq(s, 1, Len(p)) = p

\* old occurs in s
Contains(s, old) ==
    \E i \in 1..(Len(s) - Len(old) + 1) : SubSeq(s, i, i + Len(old) - 1) = old

RECURSIVE str_replace(_, _, _)
\* Python's s.replace(old, new) for non-empty old: the non-overlapping
\* occurrences of old, found left to right, each become new
str_replace(s, old, new) ==
    IF Len(s) < Len(old) THEN s
    ELSE IF StartsWith(s, old)
         THEN new \o str_replace(SubSeq(s, Len(old) + 1, Len(s)), old, new)
         ELSE <<Head(s)>> \o str_replace(Tail(s), old, new)

\* the whitespace characters of the model
Whitespace == {" ", "\n"}

RECURSIVE str_lstrip(_)
str_lstrip(s) ==
    IF s # <<>> /\ Head(s) \in Whitespace THEN str_lstrip(Tail(s)) ELSE s

RECURSIVE str_rstrip(_)
str_rstrip(s) ==
    IF s # <<>> /\ s[Len(s)] \in Whitespace
    THEN str_rstrip(SubSeq(s, 1, Len(s) - 1)) ELSE s

\* a variant of str.strip that strips leading whitespace only
str_strip_left_only(s) == str_lstrip(s)

\* Python's s.strip()
str_strip(s) == str_rstrip(str_lstrip(s))

RECURSIVE str_split(_, _)
\* Python's s.split(sep) for a one-character sep: the pieces between the
\* separators, empty pieces included
str_split(s, sep) ==
    IF \A i \in 1..Len(s) : s[i] # sep THEN <<s>>
    ELSE LET i == CHOOSE j \in 1..Len(s) :
                      s[j] = sep /\ \A k \in 1..(j - 1) : s[k] # sep
         IN  <<SubSeq(s, 1, i - 1)>> \o str_split(SubSeq(s, i + 1, Len(s)), sep)

-----------------------------------------------------------------------------
(* build_text_fallback *)

CODE_OPEN  == <<"<", "c", "o", "d", "e", ">">>
CODE_CLOSE == <<"<", "/", "c", "o", "d", "e", ">">>
B_OPEN     == <<"<", "b", ">">>
B_CLOSE    == <<"<", "/", "b", ">">>
ESC_GT     == <<"&", "g", "t", ";">>
ESC_LT     == <<"&", "l", "t", ";">>
ESC_AMP    == <<"&", "a", "m", "p", ";">>
\* the grave accent U+0060, which a TLA+ string cannot hold
BACKTICK   == <<"U+0060">>

\* a variant that decodes &amp; before the other escapes
build_text_fallback_amp_first(tip_html) ==
    LET s1 == str_replace(tip_html, CODE_OPEN, BACKTICK)
        s2 == str_replace(s1, CODE_CLOSE, BACKTICK)
        s3 == str_replace(s2, B_OPEN, <<>>)
        s4 == str_replace(s3, B_CLOSE, <<>>)
        s5 == str_replace(s4, ESC_AMP, <<"&">>)
        s6 == str_replace(s5, ESC_GT, <<">">>)
    IN  str_replace(s6, ESC_LT, <<"<">>)

\* a variant that strips the italic open tag as well
build_text_fallback_strip_i(tip_html) ==
    LET s1 == str_replace(tip_html, CODE_OPEN, BACKTICK)
        s2 == str_replace(s1, CODE_CLOSE, BACKTICK)
        s3 == str_replace(s2, B_OPEN, <<>>)
        s4 == str_replace(s3, B_CLOSE, <<>>)
        s5 == str_replace(s4, <<"<", "i", ">">>, <<>>)
        s6 == str_replace(s5, ESC_GT, <<">">>)
        s7 == str_replace(s6, ESC_LT, <<"<">>)
    IN  str_replace(s7, ESC_AMP, <<"&">>)

\* the replace chain, in the order the code applies it
build_text_fallback(tip_html) ==
    LET s1 == str_replace(tip_html, CODE_OPEN, BACKTICK)
        s2 == str_replace(s1, CODE_CLOSE, BACKTICK)
        s3 == str_replace(s2, B_OPEN, <<>>)
        s4 == str_replace(s3, B_CLOSE, <<>>)
        s5 == str_replace(s4, ESC_GT, <<">">>)
        s6 == str_replace(s5, ESC_LT, <<"<">>)
    IN  str_replace(s6, ESC_AMP, <<"&">>)

\* the tokens the chain recognizes
Recognized == {CODE_OPEN, CODE_CLOSE, B_OPEN, B_CLOSE, ESC_GT, ESC_LT, ESC_AMP}

\* pieces of text in which <, > and & occur only inside a complete tag or
\* escape: the recognized tokens, another tag, plain text
I_OPEN  == <<"<", "i", ">">>
WellFormedFrags == Recognized \cup {I_OPEN, <<"x">>, <<"l", "t", ";">>}

\* pieces that are fragments of a tag or of an escape
BrokenFrags == {<<"<">>, <<"&">>, <<"<", "/">>, <<"b", ">">>}

Frags == WellFormedFrags \cup BrokenFrags

\* the sequences of at most n fragments
FragSeqs(n) == UNION {[1..k -> Frags] : k \in 0..n}

USE_      == <<"U", "s", "e", " ">>
AUTO      == <<"a", "u", "t", "o">>
\* "<b>Use <code>auto</code></b>", as fragments
ExampleFrags == <<B_OPEN, USE_, CODE_OPEN, AUTO, CODE_CLOSE, B_CLOSE>>

-----------------------------------------------------------------------------
(* SpecFallback: build_text_fallback on bounded inputs *)

IdleFb == fb_frags = <<>> /\ fb_in = <<>> /\ fb_out = <<>> /\ fb_pc = "idle"

InitFb ==
    /\ fb_frags \in FragSeqs(MaxFrags) \cup {ExampleFrags}
    /\ fb_in = Concat(fb_frags)
    /\ fb_out = <<>>
    /\ fb_pc = "call"

\* text = build_text_fallback(tip)
ApplyFallback ==
    /\ fb_pc = "call"
    /\ fb_out' = build_text_fallback(fb_in)
    /\ fb_pc' = "done"
    /\ UNCHANGED <<fb_frags, fb_in, runVars, selVars>>

-----------------------------------------------------------------------------
(* SpecTip: pick_tip_today on consecutive days *)

TIP_A == <<"A">>
TIP_B == <<"B">>
TIP_C == <<"C">>

\* a variant that rotates by the day of the week
pick_index_weekday(tips, today) == (today % 7) % Len(tips)

\* a variant that counts days from zero
pick_index_from_zero(tips, today) == (today - 1) % Len(tips)

\* today % len(CPP_TIPS), for a non-empty list
pick_index(tips, today) == today % Len(tips)

\* CPP_TIPS[today % len(CPP_TIPS)]: Python indexes from 0, TLA+ from 1
pick_tip_today(tips, today) == tips[pick_index(tips, today) + 1]

IdleSel == sel_tips = <<>> /\ sel_day = 0 /\ sel_hist = <<>>

InitSel ==
    /\ sel_tips \in UNION {[1..n -> {TIP_A, TIP_B, TIP_C}] : n \in 1..MaxTips}
    /\ sel_day \in 1..MaxStartDay
    /\ sel_hist = <<>>

\* the script is run once on day sel_day; the next run is a day later
DailyPick ==
    /\ Len(sel_hist) < MaxRunDays
    /\ sel_hist' = Append(sel_hist,
                          [day   |-> sel_day,
                           index |-> pick_index(sel_tips, sel_day),
                           tip   |-> pick_tip_today(sel_tips, sel_day)])
    /\ sel_day' = sel_day + 1
    /\ UNCHANGED <<sel_tips, runVars, fbVars>>

-----------------------------------------------------------------------------
(* Spec: one run of the script *)

\* Python's None, which no string of characters equals
None == <<"None">>

\* the truth value Python gives a string or None
Truthy(v) == v # None /\ v # <<>>

\* the truth value Python gives a list
TruthyList(l) == l # <<>>

\* os.getenv(name): the value, or None when the variable is unset
getenv(e, name) == e[name]

\* os.getenv(name, default)
getenv_default(e, name, default) == IF e[name] = None THEN default ELSE e[name]

RECURSIVE strip_nonempty(_)
\* [e.strip() for e in parts if e.strip()]
strip_nonempty(parts) ==
    IF parts = <<>> THEN <<>>
    ELSE LET e == str_strip(Head(parts))
         IN  (IF Truthy(e) THEN <<e>> ELSE <<>>) \o strip_nonempty(Tail(parts))

\* the RECEIVER_EMAILS global computed from the environment
parse_receivers(e) ==
    strip_nonempty(str_split(getenv_default(e, "RECEIVER_EMAILS", <<>>), ","))

\* the fixed template around the tip, each part standing for its text
HTML_HEAD == <<"\n", "<!doctype html>...<div style=font-size:15px>", "\n", " ">>
HTML_TAIL == <<"\n", " ", "</div>...</html>", "\n">>

\* the f-string of the template, stripped
build_html_email(tip_html) == str_strip(HTML_HEAD \o tip_html \o HTML_TAIL)

\* f"Daily C++ Byte . {datetime.date.today().isoformat()}"
make_subject(today) == [prefix |-> "Daily C++ Byte", date |-> today]

\* a variant of the precondition that does not look at the recipient list
config_ok_no_receivers(sender, password, receivers) ==
    Truthy(sender) /\ Truthy(password)

\* SENDER_EMAIL and EMAIL_PASSWORD and RECEIVER_EMAILS
config_ok(sender, password, receivers) ==
    Truthy(sender) /\ Truthy(password) /\ TruthyList(receivers)

\* the message of one loop iteration and the recipient it is handed over with
make_msg(sender, rcpt, subj, html_body, text_body) ==
    [envelope_from |-> sender,
     envelope_to   |-> rcpt,
     From          |-> sender,
     To            |-> rcpt,
     Subject       |-> subj,
     plain         |-> text_body,
     html          |-> html_body]

\* the tips of the runs of Spec: a plain one, one with markup, a plain one
TIP_MARKUP == Concat(ExampleFrags)
RunTips == <<TIP_A, TIP_MARKUP, TIP_B>>

\* the values of a sender setting: unset, empty, set
SettingValues == {None, <<>>, <<"s">>}

\* the values of the recipient setting: unset, or a short string of
\* address characters, blanks and commas
EnvStrings(n) == UNION {[1..k -> {"a", " ", ","}] : k \in 0..n}

IdleRun ==
    /\ pc = "idle"
    /\ env = <<>>
    /\ SENDER_EMAIL = None /\ EMAIL_PASSWORD = None /\ RECEIVER_EMAILS = <<>>
    /\ CPP_TIPS = <<>>
    /\ clock = 0
    /\ tip = None /\ html = None /\ text = None /\ subject = None
    /\ session = "none" /\ opened = 0 /\ released = 0
    /\ tls = FALSE /\ auth = FALSE
    /\ rest = <<>> /\ sends = <<>> /\ printed = <<>> /\ calls = <<>>
    /\ error = "none"

InitRun ==
    /\ pc = "import"
    /\ env \in [SENDER_EMAIL    : SettingValues,
                 EMAIL_PASSWORD  : SettingValues,
                 RECEIVER_EMAILS : EnvStrings(MaxEnvLen) \cup {None}]
    /\ SENDER_EMAIL = None /\ EMAIL_PASSWORD = None /\ RECEIVER_EMAILS = <<>>
    /\ CPP_TIPS \in {SubSeq(RunTips, 1, n) : n \in 0..MaxRunTips}
    /\ clock \in 1..MaxClock
    /\ tip = None /\ html = None /\ text = None /\ subject = None
    /\ session = "none" /\ opened = 0 /\ released = 0
    /\ tls = FALSE /\ auth = FALSE
    /\ rest = <<>> /\ sends = <<>> /\ printed = <<>> /\ calls = <<>>
    /\ error = "none"

smtpVars == <<session, opened, released, tls, auth, rest, sends, printed, calls>>
confVars == <<env, SENDER_EMAIL, EMAIL_PASSWORD, RECEIVER_EMAILS, CPP_TIPS>>
bodyVars == <<tip, html, text, subject>>

\* the module-level assignments from the environment
Import ==
    /\ pc = "import"
    /\ SENDER_EMAIL' = getenv(env, "SENDER_EMAIL")
    /\ EMAIL_PASSWORD' = getenv(env, "EMAIL_PASSWORD")
    /\ RECEIVER_EMAILS' = parse_receivers(env)
    /\ pc' = "pick_tip"
    /\ UNCHANGED <<env, CPP_TIPS, clock, bodyVars, smtpVars, error, selVars, fbVars>>

\* tip = pick_tip_today(), the list not empty
PickTip ==
    /\ pc = "pick_tip"
    /\ CPP_TIPS # <<>>
    /\ tip' = pick_tip_today(CPP_TIPS, clock)
    /\ pc' = "build_html"
    /\ UNCHANGED <<confVars, clock, html, text, subject, smtpVars, error,
                   selVars, fbVars>>

\* a variant that falls back to an empty tip
PickTipFails_default ==
    /\ pc = "pick_tip"
    /\ CPP_TIPS = <<>>
    /\ tip' = <<>>
    /\ pc' = "build_html"
    /\ UNCHANGED <<confVars, clock, html, text, subject, smtpVars, error,
                   selVars, fbVars>>

\* tip = pick_tip_today(), the list empty: today % 0 raises, and nothing
\* in the script catches it
PickTipFails ==
    /\ pc = "pick_tip"
    /\ CPP_TIPS = <<>>
    /\ error' = "ZeroDivisionError"
    /\ pc' = "failed"
    /\ UNCHANGED <<confVars, clock, bodyVars, smtpVars, selVars, fbVars>>

\* html = build_html_email(tip)
BuildHtml ==
    /\ pc = "build_html"
    /\ html' = build_html_email(tip)
    /\ pc' = "build_text"
    /\ UNCHANGED <<confVars, clock, tip, text, subject, smtpVars, error,
                   selVars, fbVars>>

\* text = build_text_fallback(tip)
BuildText ==
    /\ pc = "build_text"
    /\ text' = build_text_fallback(tip)
    /\ pc' = "build_subject"
    /\ UNCHANGED <<confVars, clock, tip, html, subject, smtpVars, error,
                   selVars, fbVars>>

\* subject = f"... {datetime.date.today().isoformat()}": a second reading of
\* the clock, which midnight may have advanced since the first
BuildSubject ==
    /\ pc = "build_subject"
    /\ clock' \in {clock, clock + 1}
    /\ subject' = make_subject(clock')
    /\ pc' = "send_email"
    /\ UNCHANGED <<confVars, tip, html, text, smtpVars, error, selVars, fbVars>>

\* send_email: the precondition on the three settings
CheckConfig ==
    /\ pc = "send_email"
    /\ IF config_ok(SENDER_EMAIL, EMAIL_PASSWORD, RECEIVER_EMAILS)
       THEN pc' = "connect" /\ error' = error
       ELSE pc' = "failed" /\ error' = "RuntimeError"
    /\ UNCHANGED <<confVars, clock, bodyVars, smtpVars, selVars, fbVars>>

\* one call on the mail server and whether it returned or raised
Call(op, ok) == [op |-> op, ok |-> ok]

\* a variant that logs in on the plain connection
Connect_skip_starttls ==
    /\ pc = "connect"
    /\ session' = "open"
    /\ opened' = opened + 1
    /\ calls' = Append(calls, Call("connect", TRUE))
    /\ pc' = "login"
    /\ UNCHANGED <<confVars, clock, bodyVars, released, tls, auth, rest, sends,
                   printed, error, selVars, fbVars>>

\* smtplib.SMTP("smtp.gmail.com", 587) connects: the session is open
Connect ==
    /\ pc = "connect"
    /\ session' = "open"
    /\ opened' = opened + 1
    /\ calls' = Append(calls, Call("connect", TRUE))
    /\ pc' = "starttls"
    /\ UNCHANGED <<confVars, clock, bodyVars, released, tls, auth, rest, sends,
                   printed, error, selVars, fbVars>>

\* the constructor raises: there is no session and no with block is entered
ConnectFails ==
    /\ pc = "connect"
    /\ calls' = Append(calls, Call("connect", FALSE))
    /\ error' = "OSError"
    /\ pc' = "failed"
    /\ UNCHANGED <<confVars, clock, bodyVars, session, opened, released, tls,
                   auth, rest, sends, printed, selVars, fbVars>>

\* server.starttls()
StartTLS ==
    /\ pc = "starttls"
    /\ tls' = TRUE
    /\ calls' = Append(calls, Call("starttls", TRUE))
    /\ pc' = "login"
    /\ UNCHANGED <<confVars, clock, bodyVars, session, opened, released, auth,
                   rest, sends, printed, error, selVars, fbVars>>

\* a variant without the with statement: an exception leaves the block
\* and nothing closes the session
StartTLSFails_no_exit ==
    /\ pc = "starttls"
    /\ calls' = Append(calls, Call("starttls", FALSE))
    /\ error' = "SMTPException"
    /\ pc' = "failed"
    /\ UNCHANGED <<confVars, clock, bodyVars, session, opened, released, tls,
                   auth, rest, sends, printed, selVars, fbVars>>

\* server.starttls() raises: the exception leaves the with block
StartTLSFails ==
    /\ pc = "starttls"
    /\ calls' = Append(calls, Call("starttls", FALSE))
    /\ error' = "SMTPException"
    /\ pc' = "exit"
    /\ UNCHANGED <<confVars, clock, bodyVars, session, opened, released, tls,
                   auth, rest, sends, printed, selVars, fbVars>>

\* server.login(SENDER_EMAIL, EMAIL_PASSWORD); the for loop starts
Login ==
    /\ pc = "login"
    /\ auth' = TRUE
    /\ calls' = Append(calls, Call("login", TRUE))
    /\ rest' = RECEIVER_EMAILS
    /\ pc' = "loop"
    /\ UNCHANGED <<confVars, clock, bodyVars, session, opened, released, tls,
                   sends, printed, error, selVars, fbVars>>

\* server.login raises: the exception leaves the with block
LoginFails ==
    /\ pc = "login"
    /\ calls' = Append(calls, Call("login", FALSE))
    /\ error' = "SMTPAuthenticationError"
    /\ pc' = "exit"
    /\ UNCHANGED <<confVars, clock, bodyVars, session, opened, released, tls,
                   auth, rest, sends, printed, selVars, fbVars>>

\* the message of the iteration for the recipient at the head of rest
LoopMsg ==
    make_msg(SENDER_EMAIL, str_strip(Head(rest)), subject, html, text)

RECURSIVE without(_, _)
\* the list with every element equal to x removed
without(list, x) ==
    IF list = <<>> THEN <<>>
    ELSE (IF Head(list) = x THEN <<>> ELSE <<Head(list)>>) \o without(Tail(list), x)

\* a variant that sends to each distinct address once
LoopSend_dedup ==
    /\ pc = "loop"
    /\ rest # <<>>
    /\ sends' = Append(sends, [msg |-> LoopMsg, ok |-> TRUE])
    /\ calls' = Append(calls, Call("sendmail", TRUE))
    /\ printed' = Append(printed, LoopMsg.To)
    /\ rest' = without(rest, Head(rest))
    /\ UNCHANGED <<pc, confVars, clock, bodyVars, session, opened, released,
                   tls, auth, error, selVars, fbVars>>

\* one iteration of the for loop: the message is built and sent, the
\* status line is printed
LoopSend ==
    /\ pc = "loop"
    /\ rest # <<>>
    /\ sends' = Append(sends, [msg |-> LoopMsg, ok |-> TRUE])
    /\ calls' = Append(calls, Call("sendmail", TRUE))
    /\ printed' = Append(printed, LoopMsg.To)
    /\ rest' = Tail(rest)
    /\ UNCHANGED <<pc, confVars, clock, bodyVars, session, opened, released,
                   tls, auth, error, selVars, fbVars>>

\* a variant that catches the exception of a send and goes on
LoopSendFails_swallow ==
    /\ pc = "loop"
    /\ rest # <<>>
    /\ sends' = Append(sends, [msg |-> LoopMsg, ok |-> FALSE])
    /\ calls' = Append(calls, Call("sendmail", FALSE))
    /\ rest' = Tail(rest)
    /\ UNCHANGED <<pc, confVars, clock, bodyVars, session, opened, released,
                   tls, auth, printed, error, selVars, fbVars>>

\* one iteration of the for loop in which server.sendmail raises: nothing
\* is printed and the exception leaves the loop and the with block
LoopSendFails ==
    /\ pc = "loop"
    /\ rest # <<>>
    /\ sends' = Append(sends, [msg |-> LoopMsg, ok |-> FALSE])
    /\ calls' = Append(calls, Call("sendmail", FALSE))
    /\ error' = "SMTPException"
    /\ pc' = "exit"
    /\ UNCHANGED <<confVars, clock, bodyVars, session, opened, released, tls,
                   auth, rest, printed, selVars, fbVars>>

\* the for loop has run out of recipients: the with block ends
LoopEnd ==
    /\ pc = "loop"
    /\ rest = <<>>
    /\ pc' = "exit"
    /\ UNCHANGED <<confVars, clock, bodyVars, smtpVars, error, selVars, fbVars>>

\* leaving the with block: QUIT is answered (or the connection is already
\* gone), the session is closed, a pending exception goes on to end the run
Exit ==
    /\ pc = "exit"
    /\ session' = "closed"
    /\ released' = released + 1
    /\ calls' = Append(calls, Call("quit", TRUE)) \o <<Call("close", TRUE)>>
    /\ pc' = IF error = "none" THEN "done" ELSE "failed"
    /\ UNCHANGED <<confVars, clock, bodyVars, opened, tls, auth, rest, sends,
                   printed, error, selVars, fbVars>>

\* leaving the with block: QUIT is refused, the session is closed all the
\* same and the refusal ends the run
ExitQuitFails ==
    /\ pc = "exit"
    /\ session' = "closed"
    /\ released' = released + 1
    /\ calls' = Append(calls, Call("quit", FALSE)) \o <<Call("close", TRUE)>>
    /\ error' = "SMTPResponseException"
    /\ pc' = "failed"
    /\ UNCHANGED <<confVars, clock, bodyVars, opened, tls, auth, rest, sends,
                   printed, selVars, fbVars>>

-----------------------------------------------------------------------------
(* The specifications *)

Init == InitRun /\ IdleSel /\ IdleFb

Next ==
    \/ Import
    \/ PickTip
    \/ PickTipFails
    \/ BuildHtml
    \/ BuildText
    \/ BuildSubject
    \/ CheckConfig
    \/ Connect
    \/ ConnectFails
    \/ StartTLS
    \/ StartTLSFails
    \/ Login
    \/ LoginFails
    \/ LoopSend
    \/ LoopSendFails
    \/ LoopEnd
    \/ Exit
    \/ ExitQuitFails

Spec == Init /\ [][Next]_vars

InitTip == IdleRun /\ InitSel /\ IdleFb
NextTip == DailyPick
SpecTip == InitTip /\ [][NextTip]_vars

InitFallback == IdleRun /\ IdleSel /\ InitFb
NextFallback == ApplyFallback
SpecFallback == InitFallback /\ [][NextFallback]_vars

-----------------------------------------------------------------------------
(* Tip selection *)

\* C1: on a day with day-count d, a list of N >= 1 tips yields the tip at
\* index d mod N (counted from 0), so two days whose day-counts are equal
\* modulo N yield the same tip; the list [A, B, C] on day-count 7 yields B.
C1_TipAtDayModN ==
    LET N == Len(sel_tips) IN
    \A i \in 1..Len(sel_hist) :
        /\ sel_hist[i].tip = sel_tips[(sel_hist[i].day % N) + 1]
        /\ \A j \in 1..Len(sel_hist) :
               sel_hist[i].day % N = sel_hist[j].day % N
                   => sel_hist[i].tip = sel_hist[j].tip
        /\ (sel_tips = <<TIP_A, TIP_B, TIP_C>> /\ sel_hist[i].day = 7)
               => sel_hist[i].tip = TIP_B

\* the list [A, B, C] was used on day-count 4 and on day-count 7, and gave B
\* both times
C1_Witness ==
    /\ sel_tips = <<TIP_A, TIP_B, TIP_C>>
    /\ \E i, j \in 1..Len(sel_hist) :
           /\ sel_hist[i].day = 4 /\ sel_hist[j].day = 7
           /\ sel_hist[i].tip = TIP_B /\ sel_hist[j].tip = TIP_B

\* C2: with one run per day, every N consecutive days (N the length of the
\* tip list) pick every position of the list exactly once, and the pick of
\* day d+N is the pick of day d.
C2_CyclesWithPeriodN ==
    LET N == Len(sel_tips) IN
    /\ \A i \in 1..Len(sel_hist) :
           /\ i > 1 => sel_hist[i].day = sel_hist[i - 1].day + 1
           /\ i + N - 1 <= Len(sel_hist) =>
                  /\ {sel_hist[j].index : j \in i..(i + N - 1)} = 0..(N - 1)
                  /\ \A j, k \in i..(i + N - 1) :
                         sel_hist[j].index = sel_hist[k].index => j = k
           /\ i + N <= Len(sel_hist) =>
                  /\ sel_hist[i + N].day = sel_hist[i].day + N
                  /\ sel_hist[i + N].index = sel_hist[i].index
                  /\ sel_hist[i + N].tip = sel_hist[i].tip

\* a list of three tips has been used on seven consecutive days
C2_Witness ==
    /\ Len(sel_tips) = 3
    /\ Len(sel_hist) >= 7
    /\ sel_hist[1].index # sel_hist[2].index
    /\ sel_hist[4].index = sel_hist[1].index

-----------------------------------------------------------------------------
(* Text fallback *)

\* what the fallback makes of one well-formed piece: an emphasis tag goes,
\* a code tag becomes a grave accent, an escape is decoded, the rest stays
FallbackOfPiece(f) ==
    IF f \in {B_OPEN, B_CLOSE} THEN <<>>
    ELSE IF f \in {CODE_OPEN, CODE_CLOSE} THEN BACKTICK
    ELSE IF f = ESC_LT THEN <<"<">>
    ELSE IF f = ESC_GT THEN <<">">>
    ELSE IF f = ESC_AMP THEN <<"&">>
    ELSE f

\* the same, with the code tags deleted like the emphasis tags
DeletionOfPiece(f) ==
    IF f \in {CODE_OPEN, CODE_CLOSE} THEN <<>> ELSE FallbackOfPiece(f)

\* the input is made of well-formed pieces only
WellFormedInput ==
    \A i \in 1..Len(fb_frags) : fb_frags[i] \in WellFormedFrags \cup {USE_, AUTO}

\* C5 as amended: on a text in which <, > and & occur only inside complete
\* tags and escapes, the fallback deletes each <b> and </b>, puts a grave
\* accent in place of each <code> and </code>, and decodes each &lt;, &gt;,
\* &amp; once; the fallback of "<b>Use <code>auto</code></b>" is "Use "
\* followed by auto between two grave accents.
C5_FallbackByPiece ==
    (fb_pc = "done" /\ WellFormedInput) =>
        /\ fb_out = Concat([i \in 1..Len(fb_frags) |-> FallbackOfPiece(fb_frags[i])])
        /\ fb_frags = ExampleFrags => fb_out = USE_ \o BACKTICK \o AUTO \o BACKTICK

\* the fallback of the example text has been computed
C5_Witness ==
    /\ fb_pc = "done"
    /\ fb_in = B_OPEN \o USE_ \o CODE_OPEN \o AUTO \o CODE_CLOSE \o B_CLOSE
    /\ fb_out = USE_ \o BACKTICK \o AUTO \o BACKTICK

\* C5 as stated: the fallback deletes every recognized paired token, the
\* code pair included, and decodes the escapes; the fallback of
\* "<b>Use <code>auto</code></b>" is "Use auto".
C5_AsStated ==
    (fb_pc = "done" /\ WellFormedInput) =>
        /\ fb_out = Concat([i \in 1..Len(fb_frags) |-> DeletionOfPiece(fb_frags[i])])
        /\ fb_frags = ExampleFrags => fb_out = USE_ \o AUTO

\* the input holds none of the seven recognized tokens
NoRecognizedToken == \A t \in Recognized : ~Contains(fb_in, t)

\* C6: a text that holds none of the recognized tokens comes back unchanged,
\* any other tag in it included.
C6_UnchangedWithoutTokens ==
    (fb_pc = "done" /\ NoRecognizedToken) => fb_out = fb_in

\* a text with the tag <i>, a lone & and no recognized token has come back
\* unchanged
C6_Witness ==
    /\ fb_pc = "done"
    /\ NoRecognizedToken
    /\ Contains(fb_in, I_OPEN)
    /\ Contains(fb_in, <<"&">>)
    /\ fb_out = fb_in

-----------------------------------------------------------------------------
(* The run *)

\* the run has ended: the script returned or an exception ended it
Ended == pc \in {"done", "failed"}

\* the positions of send_email past its precondition
InSession == {"connect", "starttls", "login", "loop", "exit"}

\* C3: with an empty tip list the run fails at tip selection with the
\* division error of the modulus; no message part is built, no session is
\* opened, no call is made on the mail server and nothing is sent.
C3_EmptyListFailsFirst ==
    CPP_TIPS = <<>> =>
        /\ pc \in {"import", "pick_tip", "failed"}
        /\ pc = "failed" => error = "ZeroDivisionError"
        /\ tip = None /\ html = None /\ text = None
        /\ calls = <<>> /\ sends = <<>> /\ printed = <<>>
        /\ opened = 0 /\ session = "none"
        /\ subject = None

\* a run with an empty tip list and complete settings has failed at tip
\* selection
C3_Witness ==
    /\ CPP_TIPS = <<>>
    /\ pc = "failed"
    /\ error = "ZeroDivisionError"
    /\ config_ok(SENDER_EMAIL, EMAIL_PASSWORD, RECEIVER_EMAILS)

\* a setting is missing or empty: the sender, the credential, or a
\* recipient value that is unset or holds only blanks and commas
SettingMissing ==
    \/ env.SENDER_EMAIL \in {None, <<>>}
    \/ env.EMAIL_PASSWORD \in {None, <<>>}
    \/ env.RECEIVER_EMAILS = None
    \/ \A i \in 1..Len(env.RECEIVER_EMAILS) : env.RECEIVER_EMAILS[i] \in {" ", ","}

\* C4: with the sender, the credential or the recipient list missing or
\* empty, send_email raises the configuration error before any network
\* activity: no session is opened, no call (connect, TLS upgrade, login,
\* send) is made on the mail server, and the run does not succeed.
C4_MissingConfigFailsBeforeNetwork ==
    SettingMissing =>
        /\ pc \notin InSession \cup {"done"}
        /\ (pc = "failed" /\ CPP_TIPS # <<>>) => error = "RuntimeError"
        /\ calls = <<>> /\ sends = <<>> /\ printed = <<>>
        /\ opened = 0 /\ session = "none" /\ ~tls /\ ~auth

\* send_email was called with sender and credential set and a recipient
\* value of blanks and commas only, and raised the configuration error
C4_Witness ==
    /\ pc = "failed"
    /\ error = "RuntimeError"
    /\ Truthy(env.SENDER_EMAIL) /\ Truthy(env.EMAIL_PASSWORD)
    /\ env.RECEIVER_EMAILS = <<" ", ",">>
    /\ html # None

\* the for loop ran to its end: the with block was left, or is being left,
\* after a login and without a send that raised
LoopCompleted ==
    /\ pc \in {"exit", "done", "failed"}
    /\ auth
    /\ \A i \in 1..Len(sends) : sends[i].ok

\* C7: the send attempts follow the recipient list element by element and in
\* its order, each to one recipient and all with the subject, HTML body and
\* text body of the run; where no send fails and the loop runs to its end,
\* the attempts are the whole list, duplicates included.
C7_SendsFollowRecipientList ==
    /\ Len(sends) <= Len(RECEIVER_EMAILS)
    /\ \A i \in 1..Len(sends) :
           /\ sends[i].msg.envelope_to = RECEIVER_EMAILS[i]
           /\ sends[i].msg.To = RECEIVER_EMAILS[i]
           /\ sends[i].msg.Subject = subject
           /\ sends[i].msg.html = html
           /\ sends[i].msg.plain = text
           /\ sends[i].msg.From = SENDER_EMAIL
    /\ LoopCompleted => Len(sends) = Len(RECEIVER_EMAILS)
    /\ pc = "done" => LoopCompleted

\* a run with the recipient list [a, a, a] has succeeded after three sends
\* of the tip with markup
C7_Witness ==
    /\ pc = "done"
    /\ RECEIVER_EMAILS = << <<"a">>, <<"a">>, <<"a">> >>
    /\ Len(sends) = 3
    /\ \A i \in 1..3 : sends[i].msg.To = <<"a">> /\ sends[i].ok
    /\ tip = TIP_MARKUP
    /\ sends[1].msg.plain = sends[3].msg.plain

\* C8 (in every state): a send that raised is the last attempt of the run,
\* it has set the run's error and the run does not succeed; the sends before
\* it succeeded and printed their status lines; a run that succeeds has
\* attempted a send for every recipient.
C8_State ==
    /\ \A i \in 1..Len(sends) : ~sends[i].ok =>
           /\ i = Len(sends)
           /\ error # "none"
           /\ pc \in {"exit", "failed"}
    /\ printed = [i \in 1..Len(printed) |-> sends[i].msg.To]
    /\ Len(printed) = Cardinality({i \in 1..Len(sends) : sends[i].ok})
    /\ pc = "done" =>
           /\ error = "none"
           /\ Len(sends) = Len(RECEIVER_EMAILS)
           /\ \A i \in 1..Len(sends) : sends[i].ok

\* C8 (in every step): the sends made stay made, after a send that raised
\* no further send is attempted, and an error once set stays set.
C8_Step ==
    /\ Len(sends') >= Len(sends)
    /\ SubSeq(sends', 1, Len(sends)) = sends
    /\ (\E i \in 1..Len(sends) : ~sends[i].ok) => sends' = sends
    /\ error # "none" => error' # "none"

\* C8: when the send to the k-th recipient fails the run takes no corrective
\* action: no retry, no later send, the earlier sends stay made, the run
\* ends with an error and never reports success; success comes only after a
\* send was attempted for every recipient.
C8_FailedSendEndsRun == []C8_State /\ [][C8_Step]_vars

\* with three recipients the second send raised: two attempts, one status
\* line, the session released and the run failed
C8_Witness ==
    /\ pc = "failed"
    /\ Len(RECEIVER_EMAILS) = 3
    /\ Len(sends) = 2
    /\ sends[1].ok /\ ~sends[2].ok
    /\ Len(printed) = 1
    /\ error = "SMTPException"

\* the positions in calls of the calls of one kind, with a given outcome
CallsAt(op, ok) == {i \in 1..Len(calls) : calls[i] = Call(op, ok)}
CallsOf(op) == {i \in 1..Len(calls) : calls[i].op = op}

\* C9 (in every state): at most one session is opened; it is released at
\* most once, and exactly once by the end of the run; no send follows a
\* release.
C9_State ==
    /\ opened <= 1
    /\ released <= opened
    /\ opened = Cardinality(CallsAt("connect", TRUE))
    /\ released = Cardinality(CallsOf("close"))
    /\ session = "open" <=> (opened = 1 /\ released = 0)
    /\ session = "closed" <=> released = 1
    /\ Ended => released = opened
    /\ \A i \in CallsOf("close") : \A j \in CallsOf("sendmail") : j < i
    /\ (pc = "loop" /\ rest # <<>>) => session = "open"

\* how far the run is from its end
Rank(p) ==
    CASE p = "import"        -> 12
      [] p = "pick_tip"      -> 11
      [] p = "build_html"    -> 10
      [] p = "build_text"    -> 9
      [] p = "build_subject" -> 8
      [] p = "send_email"    -> 7
      [] p = "connect"       -> 6
      [] p = "starttls"      -> 5
      [] p = "login"         -> 4
      [] p = "loop"          -> 3
      [] p = "exit"          -> 1
      [] OTHER               -> 0

\* C9 (in every step): a released session stays released and is not
\* released again, and every step brings the run nearer to its end.
C9_Step ==
    /\ session = "closed" => (session' = "closed" /\ released' = released)
    /\ \/ Rank(pc') < Rank(pc)
       \/ pc' = pc /\ Len(rest') < Len(rest)

\* C9: a run opens at most one session and every opened session is released
\* exactly once by the end of the run, whether all sends succeed or the TLS
\* upgrade, the login or a send fails; while a session is open the run has
\* a next step and each step brings it nearer to its end, so the release
\* comes; no send is attempted after the release.
C9_SessionReleasedOnce ==
    /\ []C9_State
    /\ [](session = "open" => ENABLED Next)
    /\ [][C9_Step]_vars

\* a send raised and the session has been released
C9_Witness ==
    /\ Ended
    /\ session = "closed"
    /\ released = 1
    /\ sends # <<>>
    /\ ~sends[Len(sends)].ok

\* C10: the calls on the server come in the order connect, TLS upgrade,
\* login, sends: every send follows a successful login, every login follows
\* a successful TLS upgrade, which follows the connect, and after a failed
\* TLS upgrade or login no send is attempted.
C10_ConnectTlsLoginSend ==
    /\ \A i \in CallsOf("sendmail") :
           /\ \E j \in CallsAt("login", TRUE) : j < i
           /\ \E j \in CallsAt("starttls", TRUE) : j < i
    /\ \A i \in CallsOf("login") : \E j \in CallsAt("starttls", TRUE) : j < i
    /\ \A i \in CallsOf("starttls") : \E j \in CallsAt("connect", TRUE) : j < i
    /\ (CallsAt("starttls", FALSE) # {} \/ CallsAt("login", FALSE) # {})
           => (sends = <<>> /\ CallsOf("sendmail") = {})
    /\ Len(sends) = Cardinality(CallsOf("sendmail"))
    /\ sends # <<>> => (tls /\ auth)
    /\ auth => tls

\* the login was refused after a successful TLS upgrade, and the run ended
\* without a send
C10_Witness ==
    /\ Ended
    /\ CallsAt("starttls", TRUE) # {}
    /\ CallsAt("login", FALSE) # {}
    /\ sends = <<>>
    /\ RECEIVER_EMAILS # <<>>

====
